---- MODULE Spec2Model ----
(***************************************************************************)
(* A model of the Graph class of src/Graph.{h,cpp}: a directed, weighted   *)
(* graph kept as an array of singly linked adjacency lists on the heap,    *)
(* with an all-pairs Dijkstra table T.  EdgeNodes live in an explicit heap *)
(* so that the pointer manipulation of insertEdge, removeEdge, copyGraph   *)
(* and clearGraph is modelled as written, aliasing included.               *)
(***************************************************************************)
EXTENDS Integers, Sequences, FiniteSets, TLC

\* ------------------------------------------------------------ bounds
\* Largest vertex identifier of the graphs that are edited and queried; the
\* graphs whose findShortestPath is followed step by step have one vertex more.
\* The code's arrays have MAX_VERTICES = 101 slots (0..100).
MaxV == 3
\* Number of edge triples an input file of buildGraph holds at most.
MaxTriples == 3
\* Number of insertEdge and removeEdge calls made after the graph is built.
MaxOps == 1

\* ------------------------------------------------------------ constants
\* Slots of the arrays: slot 0, the vertices 1..MaxV + 1 of the largest graph.
MAX_VERTICES == MaxV + 2
\* <climits>, for the 32-bit int of the code.
INT_MAX == 2147483647
INT_MIN == (0 - INT_MAX) - 1
Null == 0

\* The Graph objects of a run.
Objs == {1, 2}

\* Cells of the heap: more than any run allocates, so that operator new never fails.
HeapSize == 2 * (MaxTriples + MaxOps + 2)
Addr == 1..HeapSize
TableIdx == 0..(MAX_VERTICES - 1)
\* Weights the callers pass: a rejected one, zero, a small one and the largest int.
Weights == {0 - 1, 0, 2, INT_MAX}
\* Weights that occur in input files: zero, a small one and the largest int.
FileWeights == {0, 1, INT_MAX}
LabelNames == <<"A", "B", "C", "D", "E", "F">>
NoData == "nullptr"

\* int + int as the machine computes it: two's complement wrap-around on 32 bits
\* (written so that no intermediate value leaves the 32-bit range).
WrapAdd(a, b) ==
  IF a > 0 /\ b > 0 /\ a > INT_MAX - b
  THEN ((a - INT_MAX) - 1) + ((b - INT_MAX) - 1)
  ELSE IF a < 0 /\ b < 0 /\ a < INT_MIN - b
       THEN ((a + INT_MAX) + 1) + ((b + INT_MAX) + 1)
       ELSE a + b

VARIABLES
  heap,      \* Addr -> EdgeNode cell (used or free)
  alive,     \* Objs -> whether the Graph object is constructed
  size,      \* Objs -> Graph::size
  vertices,  \* Objs -> [TableIdx -> VertexNode]
  T,         \* Objs -> [TableIdx -> [TableIdx -> Table]]
  call,      \* the last public call: its name, arguments and results
  ops        \* number of insertEdge and removeEdge calls made

vars == <<heap, alive, size, vertices, T, call, ops>>

\* ------------------------------------------------------------ the heap
FreeCell == [used |-> FALSE, adjVertex |-> 0, weight |-> 0, nextEdge |-> Null]

EdgeNode(adjVertex, weight, nextEdge) ==
  [used |-> TRUE, adjVertex |-> adjVertex, weight |-> weight, nextEdge |-> nextEdge]

FreeAddrs(h) == {a \in Addr : ~h[a].used}

\* operator new: the allocator hands out the lowest free cell.
NewAddr(h) == CHOOSE a \in FreeAddrs(h) : \A b \in FreeAddrs(h) : a <= b

VertexNode(edgeHead, data) == [edgeHead |-> edgeHead, data |-> data]

Table(visited, dist, path) == [visited |-> visited, dist |-> dist, path |-> path]

\* The adjacency list that starts at pointer p, as a sequence of <<adjVertex, weight>>.
RECURSIVE ListOf(_, _)
ListOf(h, p) ==
  IF p = Null THEN <<>>
  ELSE <<(<<h[p].adjVertex, h[p].weight>>)>> \o ListOf(h, h[p].nextEdge)

\* The cells of the list that starts at pointer p.
RECURSIVE CellsOf(_, _)
CellsOf(h, p) ==
  IF p = Null THEN {} ELSE {p} \cup CellsOf(h, h[p].nextEdge)

\* ------------------------------------------------------------ insertEdge
\* Graph.cpp 205-216: the walk from edgeHead; it looks at a node only while that
\* node has a successor.
RECURSIVE InsertWalk(_, _, _, _, _)
InsertWalk(h, current, newEdgeNode, destinationVertex, weight) ==
  IF h[current].nextEdge # Null
  THEN IF h[current].adjVertex = destinationVertex
       THEN [h EXCEPT ![current].weight = weight, ![newEdgeNode] = FreeCell]
       ELSE InsertWalk(h, h[current].nextEdge, newEdgeNode, destinationVertex, weight)
  ELSE [h EXCEPT ![current].nextEdge = newEdgeNode]

\* Graph.cpp 191-218: the node is created, then linked in or deleted again.
InsertNode(h, verts, sourceVertex, destinationVertex, weight) ==
  LET newEdgeNode == NewAddr(h)
      h1 == [h EXCEPT ![newEdgeNode] = EdgeNode(destinationVertex, weight, Null)]
  IN  IF verts[sourceVertex].edgeHead = Null
      THEN [heap |-> h1,
            vertices |-> [verts EXCEPT ![sourceVertex].edgeHead = newEdgeNode],
            ret |-> TRUE]
      ELSE [heap |-> InsertWalk(h1, verts[sourceVertex].edgeHead, newEdgeNode,
                                destinationVertex, weight),
            vertices |-> verts,
            ret |-> TRUE]

\* insertEdge with the test of line 187 written as weight <= 0.
insertEdge_RejectZero(h, verts, sourceVertex, destinationVertex, weight) ==
  IF weight <= 0
  THEN [heap |-> h, vertices |-> verts, ret |-> FALSE]
  ELSE InsertNode(h, verts, sourceVertex, destinationVertex, weight)

\* Graph::insertEdge on the heap h and the vertices array verts of one object.
insertEdge(h, verts, sourceVertex, destinationVertex, weight) ==
  IF weight < 0
  THEN [heap |-> h, vertices |-> verts, ret |-> FALSE]
  ELSE InsertNode(h, verts, sourceVertex, destinationVertex, weight)

\* ------------------------------------------------------------ removeEdge
\* The walk of removeEdge returning true at the end of the list.
RECURSIVE RemoveWalk_NoMiss(_, _, _, _)
RemoveWalk_NoMiss(h, previous, current, destinationVertex) ==
  IF current # Null /\ h[current].adjVertex # destinationVertex
  THEN RemoveWalk_NoMiss(h, current, h[current].nextEdge, destinationVertex)
  ELSE IF current = Null
       THEN [heap |-> h, ret |-> TRUE]
       ELSE [heap |-> [h EXCEPT ![previous].nextEdge = h[current].nextEdge,
                                ![current] = FreeCell],
             ret |-> TRUE]

\* The walk of removeEdge unlinking with previous->nextEdge = nullptr.
RECURSIVE RemoveWalk_DropTail(_, _, _, _)
RemoveWalk_DropTail(h, previous, current, destinationVertex) ==
  IF current # Null /\ h[current].adjVertex # destinationVertex
  THEN RemoveWalk_DropTail(h, current, h[current].nextEdge, destinationVertex)
  ELSE IF current = Null
       THEN [heap |-> h, ret |-> FALSE]
       ELSE [heap |-> [h EXCEPT ![previous].nextEdge = Null,
                                ![current] = FreeCell],
             ret |-> TRUE]

\* Graph.cpp 249-258: the walk with a trailing pointer.
RECURSIVE RemoveWalk(_, _, _, _)
RemoveWalk(h, previous, current, destinationVertex) ==
  IF current # Null /\ h[current].adjVertex # destinationVertex
  THEN RemoveWalk(h, current, h[current].nextEdge, destinationVertex)
  ELSE IF current = Null
       THEN [heap |-> h, ret |-> FALSE]
       ELSE [heap |-> [h EXCEPT ![previous].nextEdge = h[current].nextEdge,
                                ![current] = FreeCell],
             ret |-> TRUE]

\* Graph::removeEdge on the heap h and the vertices array verts of one object.
removeEdge(h, verts, sourceVertex, destinationVertex) ==
  IF verts[sourceVertex].edgeHead = Null
  THEN [heap |-> h, vertices |-> verts, ret |-> FALSE]
  ELSE LET current == verts[sourceVertex].edgeHead
       IN  IF h[current].adjVertex = destinationVertex
           THEN [heap |-> [h EXCEPT ![current] = FreeCell],
                 vertices |-> [verts EXCEPT ![sourceVertex].edgeHead = h[current].nextEdge],
                 ret |-> TRUE]
           ELSE LET r == RemoveWalk(h, Null, current, destinationVertex)
                IN  [heap |-> r.heap, vertices |-> verts, ret |-> r.ret]

\* ------------------------------------------------------------ Dijkstra
\* The helpers for one source read and write only row T[source] of the table;
\* they are given that row.

\* Graph::lowestWeightVertex: the scan i = 1..size with its two accumulators.
RECURSIVE LowestScan(_, _, _, _, _)
LowestScan(row, n, i, lowestWeight, returnVertex) ==
  IF i <= n
  THEN IF row[i].visited = FALSE /\ row[i].dist < lowestWeight
       THEN LowestScan(row, n, i + 1, row[i].dist, i)
       ELSE LowestScan(row, n, i + 1, lowestWeight, returnVertex)
  ELSE returnVertex

\* lowestWeightVertex without the update of lowestWeight (line 355): the scan
\* keeps the last unvisited vertex of finite dist.
RECURSIVE LowestScan_NoUpdate(_, _, _, _)
LowestScan_NoUpdate(row, n, i, returnVertex) ==
  IF i <= n
  THEN IF row[i].visited = FALSE /\ row[i].dist < INT_MAX
       THEN LowestScan_NoUpdate(row, n, i + 1, i)
       ELSE LowestScan_NoUpdate(row, n, i + 1, returnVertex)
  ELSE returnVertex

lowestWeightVertex_NoUpdate(row, n) == LowestScan_NoUpdate(row, n, 1, 0)

lowestWeightVertex(row, n) == LowestScan(row, n, 1, INT_MAX, 0)

\* The relaxation that only fills an entry still at the sentinel.
Relax_FirstOnly(row, vertex, adjVertex, weight) ==
  IF row[adjVertex].visited = FALSE /\ row[adjVertex].dist = INT_MAX
  THEN [row EXCEPT ![adjVertex].dist = WrapAdd(row[vertex].dist, weight),
                   ![adjVertex].path = vertex]
  ELSE row

\* Graph.cpp 320-329: one edge vertex -> adjVertex of the given weight is relaxed.
Relax(row, vertex, adjVertex, weight) ==
  IF row[adjVertex].visited = FALSE
     /\ row[adjVertex].dist > WrapAdd(row[vertex].dist, weight)
  THEN [row EXCEPT ![adjVertex].dist = WrapAdd(row[vertex].dist, weight),
                   ![adjVertex].path = vertex]
  ELSE row

\* Graph.cpp 318-332: the walk over the adjacency list of the vertex just marked.
RECURSIVE RelaxEdges(_, _, _, _)
RelaxEdges(h, row, vertex, current) ==
  IF current # Null
  THEN RelaxEdges(h, Relax(row, vertex, h[current].adjVertex, h[current].weight),
                  vertex, h[current].nextEdge)
  ELSE row

\* Graph.cpp 306-337: the loop for (i = 1; i < size; i++).
RECURSIVE HelperLoop(_, _, _, _, _)
HelperLoop(h, verts, n, row, i) ==
  IF i < n
  THEN LET vertex == lowestWeightVertex(row, n)
       IN  IF vertex > 0
           THEN HelperLoop(h, verts, n,
                           RelaxEdges(h, [row EXCEPT ![vertex].visited = TRUE],
                                      vertex, verts[vertex].edgeHead),
                           i + 1)
           ELSE row
  ELSE row

\* The source's own entry without line 303 (path = source).
SourceEntry_NoPath(row, source) == [row EXCEPT ![source].dist = 0]

\* Graph.cpp 302-303: the source's own entry.
SourceEntry(row, source) == [row EXCEPT ![source].dist = 0, ![source].path = source]

\* Graph::findShortestPathHelper.
findShortestPathHelper(h, verts, n, Tt, source) ==
  [Tt EXCEPT ![source] = HelperLoop(h, verts, n, SourceEntry(Tt[source], source), 1)]

\* The reset that leaves the visited marks as they are.
ResetTable_KeepVisited(Tt) ==
  [row \in TableIdx |-> [column \in TableIdx |->
     [Tt[row][column] EXCEPT !.dist = INT_MAX, !.path = 0]]]

\* Graph.cpp 276-282: the three fields of every entry of the table are assigned.
ResetTable(Tt) ==
  [row \in TableIdx |-> [column \in TableIdx |->
     [Tt[row][column] EXCEPT !.dist = INT_MAX, !.path = 0, !.visited = FALSE]]]

\* Graph.cpp 284-286: the helper is run for i = 1..size.
RECURSIVE AllSources(_, _, _, _, _)
AllSources(h, verts, n, Tt, i) ==
  IF i <= n
  THEN AllSources(h, verts, n, findShortestPathHelper(h, verts, n, Tt, i), i + 1)
  ELSE Tt

\* Graph::findShortestPath: the table it leaves when called with table Tt.
findShortestPath(h, verts, n, Tt) == AllSources(h, verts, n, ResetTable(Tt), 1)

\* ------------------------------------------------------------ output
\* Graph::printPath: the vertex numbers it prints, in the order printed.
RECURSIVE printPath(_, _, _)
printPath(Tt, source, destination) ==
  IF Tt[source][destination].path > 0
  THEN (IF source # destination
        THEN printPath(Tt, source, Tt[source][destination].path)
        ELSE <<>>) \o <<destination>>
  ELSE <<>>

\* Graph::printLocationDescriptions: the labels it prints, in the order printed.
RECURSIVE printLocationDescriptions(_, _, _, _)
printLocationDescriptions(Tt, verts, source, destination) ==
  IF Tt[source][destination].path > 0
  THEN (IF source # destination
        THEN printLocationDescriptions(Tt, verts, source, Tt[source][destination].path)
        ELSE <<>>) \o <<verts[destination].data>>
  ELSE <<>>

\* The distance column with the test written as dist <= INT_MAX.
DistText_AlwaysNumber(entry) ==
  IF entry.dist <= INT_MAX THEN [dashes |-> FALSE, value |-> entry.dist]
  ELSE [dashes |-> TRUE, value |-> 0]

\* Graph.cpp 439-444 and 388-393: the distance column, a number or "--".
DistText(entry) ==
  IF entry.dist < INT_MAX THEN [dashes |-> FALSE, value |-> entry.dist]
  ELSE [dashes |-> TRUE, value |-> 0]

\* Graph::display: what it prints for one pair, from the table Tt it has just computed.
display(Tt, verts, source, destination) ==
  [from |-> source, to |-> destination,
   dist |-> DistText(Tt[source][destination]),
   path |-> printPath(Tt, source, destination),
   descriptions |-> printLocationDescriptions(Tt, verts, source, destination)]

\* Graph::displayAll: per vertex its label and, for every other vertex, the
\* distance column and the path, from the table Tt it has just computed.
displayAll(Tt, verts, n) ==
  [i \in 1..n |->
     [description |-> verts[i].data,
      rows |-> [j \in (1..n) \ {i} |->
                  [from |-> i, to |-> j,
                   dist |-> DistText(Tt[i][j]),
                   path |-> printPath(Tt, i, j)]]]]

\* ------------------------------------------------------------ clearGraph
\* Graph.cpp 133-137: every node of one list is deleted.
RECURSIVE DeleteList(_, _)
DeleteList(h, current) ==
  IF current # Null
  THEN DeleteList([h EXCEPT ![current] = FreeCell], h[current].nextEdge)
  ELSE h

\* Graph::clearGraph: the loop i = 1..size (size itself is not assigned).
RECURSIVE ClearLoop(_, _, _, _)
ClearLoop(h, verts, n, i) ==
  IF i <= n
  THEN ClearLoop(DeleteList(h, verts[i].edgeHead),
                 [verts EXCEPT ![i] = VertexNode(Null, NoData)], n, i + 1)
  ELSE [heap |-> h, vertices |-> verts]

clearGraph(h, verts, n) ==
  IF n > 0 THEN ClearLoop(h, verts, n, 1) ELSE [heap |-> h, vertices |-> verts]

\* ------------------------------------------------------------ copyGraph
\* Graph.cpp 505-513: the rest of one list is copied node by node behind current.
RECURSIVE CopyRest(_, _, _)
CopyRest(h, current, fromGraphEdgeNode) ==
  IF fromGraphEdgeNode # Null
  THEN LET temp == NewAddr(h)
           h1 == [h EXCEPT ![temp] = EdgeNode(h[fromGraphEdgeNode].adjVertex,
                                             h[fromGraphEdgeNode].weight, Null),
                           ![current].nextEdge = temp]
       IN  CopyRest(h1, temp, h[fromGraphEdgeNode].nextEdge)
  ELSE h

\* A copy that takes over the list of the other graph instead of rebuilding it.
CopyVertex_Shallow(h, verts, fromVerts, i) ==
  [heap |-> h,
   vertices |-> [verts EXCEPT ![i] = VertexNode(fromVerts[i].edgeHead, fromVerts[i].data)]]

\* Graph.cpp 484-513: one vertex, its label by value and its list node by node.
CopyVertex(h, verts, fromVerts, i) ==
  LET fromGraphEdgeNode == fromVerts[i].edgeHead
  IN  IF fromGraphEdgeNode # Null
      THEN LET head == NewAddr(h)
               h1 == [h EXCEPT ![head] = EdgeNode(h[fromGraphEdgeNode].adjVertex,
                                                 h[fromGraphEdgeNode].weight, Null)]
           IN  [heap |-> CopyRest(h1, head, h[fromGraphEdgeNode].nextEdge),
                vertices |-> [verts EXCEPT ![i] = VertexNode(head, fromVerts[i].data)]]
      ELSE [heap |-> h,
            vertices |-> [verts EXCEPT ![i] = VertexNode(Null, fromVerts[i].data)]]

RECURSIVE CopyLoop(_, _, _, _, _)
CopyLoop(h, verts, fromVerts, n, i) ==
  IF i <= n
  THEN LET r == CopyVertex(h, verts, fromVerts, i)
       IN  CopyLoop(r.heap, r.vertices, fromVerts, n, i + 1)
  ELSE [heap |-> h, vertices |-> verts]

\* Graph::copyGraph into an object whose size is already n: lists, labels and table.
copyGraph(h, verts, fromVerts, fromT, n) ==
  LET r == CopyLoop(h, verts, fromVerts, n, 1)
  IN  [heap |-> r.heap, vertices |-> r.vertices, T |-> fromT]

\* ------------------------------------------------------------ buildGraph
\* An input file: the vertex count, one label per vertex, the edge triples
\* <<source, destination, weight>>, and whether the file ends right behind the last
\* digit of the last triple (atEof) or has more characters (a newline) behind it.
File(n, t, e) ==
  [size |-> n, labels |-> [v \in 1..n |-> LabelNames[v]], triples |-> t, atEof |-> e]

Triples(n, W) == (0..n) \X (1..n) \X W

\* Graph.cpp 64-69: the k-th pass of the reading loop.  Reading the last number
\* of a file that ends right behind it sets eof(); so does a read at the end.
RECURSIVE ReadEdges(_, _, _, _)
ReadEdges(h, verts, f, k) ==
  IF k > Len(f.triples)
  THEN [heap |-> h, vertices |-> verts]
  ELSE LET src == f.triples[k][1]
           dest == f.triples[k][2]
           weight == f.triples[k][3]
           eof == (k = Len(f.triples) /\ f.atEof)
       IN  IF src = 0 \/ eof
           THEN [heap |-> h, vertices |-> verts]
           ELSE LET r == insertEdge(h, verts, src, dest, weight)
                IN  ReadEdges(r.heap, r.vertices, f, k + 1)

\* Graph::buildGraph on a file that holds more than its first line.
buildGraph(h, verts, f) ==
  LET labelled == [v \in TableIdx |->
                     IF v \in 1..f.size THEN VertexNode(Null, f.labels[v]) ELSE verts[v]]
      r == ReadEdges(h, labelled, f, 1)
  IN  [heap |-> r.heap, vertices |-> r.vertices, size |-> f.size]

\* ------------------------------------------------------------ state
\* Graph.cpp 79-83: what the constructors assign to the vertices array.
NullVertices == [v \in TableIdx |-> VertexNode(Null, NoData)]

\* No constructor assigns T: a new object's table holds whatever the memory held.
\* Two such contents stand for all of them.
JunkTables ==
  {[row \in TableIdx |-> [column \in TableIdx |-> e]] :
     e \in {Table(FALSE, 0, 0), Table(TRUE, 0 - 1, 1)}}

DeadTable == [row \in TableIdx |-> [column \in TableIdx |-> Table(FALSE, 0, 0)]]

NoOut == <<>>

Call(op, o, src, dst, weight, ret, pre, out) ==
  [op |-> op, o |-> o, src |-> src, dst |-> dst, weight |-> weight, ret |-> ret,
   pre |-> pre, out |-> out]

\* The adjacency list of vertex v of object o, as a sequence of <<adjVertex, weight>>.
Adj(o, v) == ListOf(heap, vertices[o][v].edgeHead)

\* The cells owned by object o.
Cells(o) == UNION {CellsOf(heap, vertices[o][v].edgeHead) : v \in TableIdx}

Init ==
  /\ heap = [a \in Addr |-> FreeCell]
  /\ alive = [o \in Objs |-> o = 1]
  /\ size = [o \in Objs |-> 0]
  /\ vertices = [o \in Objs |-> NullVertices]
  /\ T \in {[o \in Objs |-> IF o = 1 THEN j ELSE DeadTable] : j \in JunkTables}
  /\ call = Call("Graph", 1, 0, 0, 0, TRUE, <<>>, NoOut)
  /\ ops = 0

\* ------------------------------------------------------------ the public calls
\* Graph::Graph() for the second object.
Construct(o) ==
  /\ ~alive[o]
  /\ alive' = [alive EXCEPT ![o] = TRUE]
  /\ size' = [size EXCEPT ![o] = 0]
  /\ vertices' = [vertices EXCEPT ![o] = NullVertices]
  /\ \E j \in JunkTables : T' = [T EXCEPT ![o] = j]
  /\ call' = Call("Graph", o, 0, 0, 0, TRUE, <<>>, NoOut)
  /\ UNCHANGED <<heap, ops>>

\* buildGraph(infile) on a newly constructed object; the call record keeps the
\* files listed in pre.
ReadFile(o, f, pre) ==
  /\ alive[o] /\ size[o] = 0
  /\ LET r == buildGraph(heap, vertices[o], f)
     IN  /\ heap' = r.heap
         /\ vertices' = [vertices EXCEPT ![o] = r.vertices]
         /\ size' = [size EXCEPT ![o] = r.size]
  /\ call' = Call("buildGraph", o, 0, 0, 0, TRUE, pre, NoOut)
  /\ UNCHANGED <<alive, T, ops>>

\* buildGraph(infile) with no file kept in the call record.
BuildGraph(o, f) == ReadFile(o, f, <<>>)

\* buildGraph on any file of at most K triples with weights from W.
BuildAny(o, W, K) ==
  /\ alive[o] /\ size[o] = 0
  /\ \E n \in 1..MaxV : \E k \in 0..K :
       \E t \in [1..k -> Triples(n, W)] : \E e \in BOOLEAN :
         BuildGraph(o, File(n, t, e))

\* buildGraph on any file of MaxV + 1 vertices, at most K triples, weights from W.
BuildLargest(o, W, K) ==
  /\ alive[o] /\ size[o] = 0
  /\ \E k \in 0..K :
       \E t \in [1..k -> Triples(MaxV + 1, W)] : \E e \in BOOLEAN :
         BuildGraph(o, File(MaxV + 1, t, e))

\* findShortestPath in steps.  The call record holds the position: at the loop
\* over the sources (Graph.cpp 284), src is its counter i; in the helper's loop
\* (Graph.cpp 306), src is the source, dst the counter i, and pre the vertices
\* marked so far in this run, in order.
BeginFindShortestPath(o) ==
  /\ alive[o] /\ call.op = "buildGraph" /\ call.o = o
  /\ T' = [T EXCEPT ![o] = ResetTable(T[o])]
  /\ call' = Call("findShortestPath:284", o, 1, 0, 0, FALSE, <<>>, NoOut)
  /\ UNCHANGED <<heap, alive, size, vertices, ops>>

\* Graph.cpp 285, 302-303: the helper is entered for source i.
EnterHelper(o) ==
  /\ call.op = "findShortestPath:284" /\ call.o = o /\ call.src <= size[o]
  /\ T' = [T EXCEPT ![o][call.src] = SourceEntry(@, call.src)]
  /\ call' = Call("findShortestPathHelper:306", o, call.src, 1, 0, FALSE, <<>>, NoOut)
  /\ UNCHANGED <<heap, alive, size, vertices, ops>>

\* Graph.cpp 306-332: one pass of the helper's loop that marks a vertex.
HelperStep(o) ==
  /\ call.op = "findShortestPathHelper:306" /\ call.o = o /\ call.dst < size[o]
  /\ LET row == T[o][call.src]
         vertex == lowestWeightVertex(row, size[o])
     IN  /\ vertex > 0
         /\ T' = [T EXCEPT ![o][call.src] =
                    RelaxEdges(heap, [row EXCEPT ![vertex].visited = TRUE],
                               vertex, vertices[o][vertex].edgeHead)]
         /\ call' = [call EXCEPT !.dst = @ + 1, !.pre = Append(@, vertex)]
  /\ UNCHANGED <<heap, alive, size, vertices, ops>>

\* Graph.cpp 306, 334-336: the helper returns, at the end of its loop or because
\* lowestWeightVertex returned 0 (ret says which).
HelperReturn(o) ==
  /\ call.op = "findShortestPathHelper:306" /\ call.o = o
  /\ LET early == call.dst < size[o]
     IN  /\ early => lowestWeightVertex(T[o][call.src], size[o]) = 0
         /\ call' = Call("findShortestPath:284", o, call.src + 1, 0, 0, early,
                         call.pre, NoOut)
  /\ UNCHANGED <<heap, alive, size, vertices, T, ops>>

\* Graph.cpp 284, 287: the loop over the sources ends and findShortestPath returns.
EndFindShortestPath(o) ==
  /\ call.op = "findShortestPath:284" /\ call.o = o /\ call.src > size[o]
  /\ call' = Call("findShortestPath", o, 0, 0, 0, TRUE, <<>>, NoOut)
  /\ UNCHANGED <<heap, alive, size, vertices, T, ops>>

\* insertEdge(s, d, w) with s and d vertices of the graph.
InsertEdge(o, s, d, w) ==
  /\ alive[o] /\ s \in 1..size[o] /\ d \in 1..size[o]
  /\ LET r == insertEdge(heap, vertices[o], s, d, w)
     IN  /\ heap' = r.heap
         /\ vertices' = [vertices EXCEPT ![o] = r.vertices]
         /\ call' = Call("insertEdge", o, s, d, w, r.ret, Adj(o, s), NoOut)
  /\ ops' = ops + 1
  /\ UNCHANGED <<alive, size, T>>

\* removeEdge(s, d) with s and d vertices of the graph.
RemoveEdge(o, s, d) ==
  /\ alive[o] /\ s \in 1..size[o] /\ d \in 1..size[o]
  /\ LET r == removeEdge(heap, vertices[o], s, d)
     IN  /\ heap' = r.heap
         /\ vertices' = [vertices EXCEPT ![o] = r.vertices]
         /\ call' = Call("removeEdge", o, s, d, 0, r.ret, Adj(o, s), NoOut)
  /\ ops' = ops + 1
  /\ UNCHANGED <<alive, size, T>>

\* findShortestPath().
FindShortestPath(o) ==
  /\ alive[o]
  /\ T' = [T EXCEPT ![o] = findShortestPath(heap, vertices[o], size[o], T[o])]
  /\ call' = Call("findShortestPath", o, 0, 0, 0, TRUE, <<>>, NoOut)
  /\ UNCHANGED <<heap, alive, size, vertices, ops>>

\* display(s, d) that prints from the table as it stands.
Display_Stale(o, s, d) ==
  /\ alive[o] /\ s \in 1..size[o] /\ d \in 1..size[o]
  /\ call' = Call("display", o, s, d, 0, TRUE, <<>>, display(T[o], vertices[o], s, d))
  /\ UNCHANGED <<heap, alive, size, vertices, T, ops>>

\* display(s, d): findShortestPath(), then the line for the pair.
Display(o, s, d) ==
  /\ alive[o] /\ s \in 1..size[o] /\ d \in 1..size[o]
  /\ LET Tt == findShortestPath(heap, vertices[o], size[o], T[o])
     IN  /\ T' = [T EXCEPT ![o] = Tt]
         /\ call' = Call("display", o, s, d, 0, TRUE, <<>>, display(Tt, vertices[o], s, d))
  /\ UNCHANGED <<heap, alive, size, vertices, ops>>

\* displayAll(): findShortestPath(), then the table of all pairs.
DisplayAll(o) ==
  /\ alive[o]
  /\ LET Tt == findShortestPath(heap, vertices[o], size[o], T[o])
     IN  /\ T' = [T EXCEPT ![o] = Tt]
         /\ call' = Call("displayAll", o, 0, 0, 0, TRUE, <<>>,
                         displayAll(Tt, vertices[o], size[o]))
  /\ UNCHANGED <<heap, alive, size, vertices, ops>>

\* Graph::Graph(const Graph&): object o is constructed as a copy of object from.
copyConstruct(h, fromVerts, fromT, fromSize) ==
  LET r == copyGraph(h, NullVertices, fromVerts, fromT, fromSize)
  IN  [heap |-> r.heap, vertices |-> r.vertices, T |-> r.T, size |-> fromSize]

CopyConstruct(o, from) ==
  /\ ~alive[o] /\ alive[from]
  /\ LET r == copyConstruct(heap, vertices[from], T[from], size[from])
     IN  /\ heap' = r.heap
         /\ vertices' = [vertices EXCEPT ![o] = r.vertices]
         /\ T' = [T EXCEPT ![o] = r.T]
         /\ size' = [size EXCEPT ![o] = r.size]
  /\ alive' = [alive EXCEPT ![o] = TRUE]
  /\ call' = Call("Graph(copy)", o, from, 0, 0, TRUE, <<>>, NoOut)
  /\ UNCHANGED ops

\* Graph::operator=: object o is assigned object from (self: this == &fromGraph).
operatorAssign(h, verts, n, Tt, fromVerts, fromT, fromSize, self) ==
  IF ~self
  THEN LET c == clearGraph(h, verts, n)
           r == copyGraph(c.heap, c.vertices, fromVerts, fromT, fromSize)
       IN  [heap |-> r.heap, vertices |-> r.vertices, T |-> r.T, size |-> fromSize]
  ELSE [heap |-> h, vertices |-> verts, T |-> Tt, size |-> n]

Assign(o, from) ==
  /\ alive[o] /\ alive[from]
  /\ LET r == operatorAssign(heap, vertices[o], size[o], T[o],
                             vertices[from], T[from], size[from], o = from)
     IN  /\ heap' = r.heap
         /\ vertices' = [vertices EXCEPT ![o] = r.vertices]
         /\ T' = [T EXCEPT ![o] = r.T]
         /\ size' = [size EXCEPT ![o] = r.size]
  /\ call' = Call("operator=", o, from, 0, 0, TRUE, <<>>, NoOut)
  /\ UNCHANGED <<alive, ops>>

\* Graph::clearGraph, the private member the destructor and operator= call.
ClearGraph(o) ==
  /\ alive[o]
  /\ LET r == clearGraph(heap, vertices[o], size[o])
     IN  /\ heap' = r.heap
         /\ vertices' = [vertices EXCEPT ![o] = r.vertices]
  /\ call' = Call("clearGraph", o, 0, 0, 0, TRUE, <<>>, NoOut)
  /\ UNCHANGED <<alive, size, T, ops>>

\* ------------------------------------------------------------ specifications
\* One graph: built from a file, then changed by insertEdge and removeEdge, with
\* findShortestPath called at any time.
Next ==
  \/ BuildAny(1, {1}, MaxTriples)
  \/ ops < MaxOps /\ \E s, d \in 1..MaxV : \E w \in Weights : InsertEdge(1, s, d, w)
  \/ ops < MaxOps /\ \E s, d \in 1..MaxV : RemoveEdge(1, s, d)
  \/ FindShortestPath(1)

Spec == Init /\ [][Next]_vars

\* One graph: built from a file with weights of its own, then queried.
InitSP == Init /\ T[1][0][0].visited

\* Each run makes one query, right after the build.
NextSP ==
  \/ BuildAny(1, FileWeights, MaxTriples)
  \/ call.op = "buildGraph" /\ FindShortestPath(1)
  \/ call.op = "buildGraph" /\ \E s, d \in 1..MaxV : Display(1, s, d)

SpecSP == InitSP /\ [][NextSP]_vars

\* Two graphs: the first is built from a file, the second is made from it by copy
\* construction or by construction and assignment; either is then edited or
\* assigned the other.  Tables are recomputed before the edit, and an assignment
\* is followed by another call before the next assignment.
CopyWeights == {2}

NextCopy ==
  \/ BuildAny(1, {1}, MaxTriples - 1)
  \/ ops = 0 /\ \E o \in Objs : FindShortestPath(o)
  \/ CopyConstruct(2, 1)
  \/ Construct(2)
  \/ call.op # "operator=" /\ \E o, from \in Objs : Assign(o, from)
  \/ ops < MaxOps /\ alive[2] /\
       \E o \in Objs : \E s, d \in 1..MaxV : \E w \in CopyWeights : InsertEdge(o, s, d, w)
  \/ ops < MaxOps /\ alive[2] /\
       \E o \in Objs : \E s, d \in 1..MaxV : RemoveEdge(o, s, d)

SpecCopy == InitSP /\ [][NextCopy]_vars

\* One graph of labelled vertices and no edges, filled by up to MaxEdits
\* insertEdge and removeEdge calls on three vertex pairs with three weights; a
\* findShortestPath call ends the run.
MaxEdits == 4

ExamplePairs == {<<1, 2>>, <<2, 3>>, <<1, 3>>}

ExampleWeights == {2, 5, 10}

NextEx ==
  \/ BuildAny(1, {1}, 0)
  \/ ops < MaxEdits /\ call.op # "findShortestPath" /\
       \E e \in ExamplePairs : \E w \in ExampleWeights : InsertEdge(1, e[1], e[2], w)
  \/ ops < MaxEdits /\ call.op # "findShortestPath" /\
       \E e \in ExamplePairs : RemoveEdge(1, e[1], e[2])
  \/ call.op # "findShortestPath" /\ FindShortestPath(1)

SpecEx == InitSP /\ [][NextEx]_vars

\* One graph: built from a file, then one findShortestPath call followed step by
\* step.  The graphs have up to MaxV + 1 vertices.
RunWeights == {1, INT_MAX}

NextRun ==
  \/ BuildAny(1, RunWeights, MaxTriples - 1)
  \/ BuildLargest(1, RunWeights, MaxTriples - 1)
  \/ BeginFindShortestPath(1)
  \/ EnterHelper(1)
  \/ HelperStep(1)
  \/ HelperReturn(1)
  \/ EndFindShortestPath(1)

SpecRun == InitSP /\ [][NextRun]_vars

\* One graph: built from any file, which the call record keeps, then edited.
BuildWeights == {1, 2}

NextBuild ==
  \/ alive[1] /\ size[1] = 0 /\
       \E n \in 1..MaxV : \E k \in 0..MaxTriples :
         \E t \in [1..k -> Triples(n, BuildWeights)] : \E e \in BOOLEAN :
           ReadFile(1, File(n, t, e), <<File(n, t, e)>>)
  \/ ops < MaxOps /\ \E s, d \in 1..MaxV : RemoveEdge(1, s, d)

SpecBuild == InitSP /\ [][NextBuild]_vars

\* One graph: built from a file, then edited and queried in any order; a query
\* follows a build, an edit or a findShortestPath call.
Queried == call.op \in {"display", "displayAll"}

NextQuery ==
  \/ BuildAny(1, {1}, MaxTriples - 1)
  \/ ops < MaxOps /\
       \E s, d \in 1..MaxV : \E w \in CopyWeights : InsertEdge(1, s, d, w)
  \/ ops < MaxOps /\ \E s, d \in 1..MaxV : RemoveEdge(1, s, d)
  \/ FindShortestPath(1)
  \/ ~Queried /\ \E s, d \in 1..MaxV : Display(1, s, d)
  \/ ~Queried /\ DisplayAll(1)

SpecQuery == InitSP /\ [][NextQuery]_vars

\* One graph: built from a file, edited, and cleared at any time, also twice.
NextClear ==
  \/ BuildAny(1, {1}, MaxTriples - 1)
  \/ ops < MaxOps /\
       \E s, d \in 1..MaxV : \E w \in CopyWeights : InsertEdge(1, s, d, w)
  \/ ops < MaxOps /\ \E s, d \in 1..MaxV : RemoveEdge(1, s, d)
  \/ ClearGraph(1)

SpecClear == InitSP /\ [][NextClear]_vars

\* ------------------------------------------------------------ vocabulary of the claims
\* The positions of the entries for destination d in an adjacency sequence.
EntriesFor(list, d) == {i \in 1..Len(list) : list[i][1] = d}

HasEdge(list, d) == EntriesFor(list, d) # {}

\* The sequence without its i-th entry.
Without(list, i) == SubSeq(list, 1, i - 1) \o SubSeq(list, i + 1, Len(list))

\* The position of the first entry for destination d.
FirstFor(list, d) == CHOOSE i \in EntriesFor(list, d) : \A j \in EntriesFor(list, d) : i <= j

\* The adjacency list of vertex v of object o in the next state.
AdjNext(o, v) == ListOf(heap', vertices'[o][v].edgeHead)

\* Everything but the record of the call and the call counter.
GraphState == <<heap, alive, size, vertices, T>>

\* The table of object o is the one a findShortestPath call left (no constructor
\* leaves dist 0 and path 1 in T[1][1]).
TableComputed(o) == T[o][1][1].dist = 0 /\ T[o][1][1].path = 1

\* ------------------------------------------------------------ C1
\* C1: every adjacency list holds at most one edge per destination, and after a
\* successful insertEdge(s, d, w) the list of s holds exactly one entry for d, of
\* weight w.
C1_OneEdgePerDestination ==
  /\ \A o \in Objs : \A v, d \in 1..MaxV : Cardinality(EntriesFor(Adj(o, v), d)) <= 1
  /\ (call.op = "insertEdge" /\ call.ret) =>
       /\ Cardinality(EntriesFor(Adj(call.o, call.src), call.dst)) = 1
       /\ \A i \in EntriesFor(Adj(call.o, call.src), call.dst) :
            Adj(call.o, call.src)[i][2] = call.weight

C4_AbsentEdgeFails ==
  [][(call'.op = "removeEdge" /\ ~HasEdge(Adj(call'.o, call'.src), call'.dst)) =>
       /\ call'.ret = FALSE
       /\ UNCHANGED GraphState]_vars

\* A removeEdge failed on a non-empty list, with the table computed before.
C4_Witness ==
  /\ call.op = "removeEdge" /\ ~call.ret /\ call.pre # <<>>
  /\ TableComputed(call.o)

\* ------------------------------------------------------------ C5
\* C5: removeEdge(s, d) on a list of s with an entry for d returns success and
\* removes exactly the first entry for d: the other entries keep order and
\* weights, and every other list is unchanged.
C5_RemovesExactlyThatEdge ==
  [][(call'.op = "removeEdge" /\ HasEdge(Adj(call'.o, call'.src), call'.dst)) =>
       /\ call'.ret = TRUE
       /\ AdjNext(call'.o, call'.src) =
            Without(Adj(call'.o, call'.src),
                    FirstFor(Adj(call'.o, call'.src), call'.dst))
       /\ \A o \in Objs : \A v \in TableIdx :
            (o # call'.o \/ v # call'.src) => AdjNext(o, v) = Adj(o, v)
       /\ UNCHANGED <<alive, size, T>>]_vars

\* A removeEdge took the middle entry out of a list of three.
C5_Witness ==
  /\ call.op = "removeEdge" /\ call.ret
  /\ Len(call.pre) = 3 /\ FirstFor(call.pre, call.dst) = 2
  /\ Len(Adj(call.o, call.src)) = 2

\* ------------------------------------------------------------ graphs, for the claims
\* The stored edges of object o, as <<source, destination, weight>>.
Edges(o) ==
  UNION {{<<u, Adj(o, u)[i][1], Adj(o, u)[i][2]>> : i \in 1..Len(Adj(o, u))} :
           u \in 1..size[o]}

\* Mathematical addition of path weights, capped at INT_MAX.
SatAdd(a, b) == IF a >= INT_MAX - b THEN INT_MAX ELSE a + b

Min(S) == CHOOSE x \in S : \A y \in S : x <= y

\* The least weight of a path from s to each vertex that uses at most k edges
\* (Bellman-Ford), INT_MAX where there is none.
RECURSIVE LeastWeight(_, _, _, _)
LeastWeight(E, n, s, k) ==
  IF k = 0
  THEN [d \in 1..n |-> IF d = s THEN 0 ELSE INT_MAX]
  ELSE LET p == LeastWeight(E, n, s, k - 1)
       IN  [d \in 1..n |->
              Min({p[d]} \cup {SatAdd(p[e[1]], e[3]) : e \in {x \in E : x[2] = d}})]

\* The vertices reachable from s by at most k edges.
RECURSIVE ReachIn(_, _, _)
ReachIn(E, s, k) ==
  IF k = 0 THEN {s}
  ELSE LET R == ReachIn(E, s, k - 1)
       IN  R \cup {e[2] : e \in {x \in E : x[1] \in R}}

Reachable(o, s, d) == d \in ReachIn(Edges(o), s, size[o])

\* The largest weight of a simple path that starts at v and avoids seen.
RECURSIVE MaxSimple(_, _, _)
MaxSimple(E, v, seen) ==
  LET out == {e \in E : e[1] = v /\ e[2] \notin seen}
  IN  IF out = {} THEN 0
      ELSE LET sums == {SatAdd(e[3], MaxSimple(E, e[2], seen \cup {e[2]})) : e \in out}
           IN  CHOOSE x \in sums : \A y \in sums : x >= y

\* Every path sum of the graph stays below the infinite sentinel.
SumsBelowSentinel(o) ==
  \A s \in 1..size[o] : MaxSimple(Edges(o), s, {s}) < INT_MAX

\* The last call was a findShortestPath, alone or inside display.
JustComputed == call.op \in {"findShortestPath", "display"}

\* ------------------------------------------------------------ C2
\* C2: for a graph whose path sums stay below the sentinel, after
\* findShortestPath every dist[s][d] is the least weight of a path from s to d,
\* and it is the sentinel exactly when d is unreachable from s.
C2_DistIsLeastPathWeight ==
  (JustComputed /\ SumsBelowSentinel(call.o)) =>
    \A s, d \in 1..size[call.o] :
      /\ T[call.o][s][d].dist =
           LeastWeight(Edges(call.o), size[call.o], s, size[call.o] - 1)[d]
      /\ (T[call.o][s][d].dist = INT_MAX) <=> ~Reachable(call.o, s, d)

\* A table was computed in which a two-edge path beats a stored direct edge.
C2_Witness ==
  /\ JustComputed /\ SumsBelowSentinel(call.o)
  /\ \E e \in Edges(call.o) :
       /\ e[1] # e[2]
       /\ T[call.o][e[1]][e[2]].dist < e[3]
       /\ T[call.o][e[1]][e[2]].path # e[1]

\* ------------------------------------------------------------ C6
\* The line display(s, d) printed reports no path and the "--" distance.
ReportsNoPath == call.out.path = <<>> /\ call.out.dist.dashes

EdgeWeight(E, u, v) == Min({e[3] : e \in {x \in E : x[1] = u /\ x[2] = v}})

\* The weight accumulated along the vertex sequence p from position i on.
RECURSIVE Accumulated(_, _, _)
Accumulated(E, p, i) ==
  IF i >= Len(p) THEN 0
  ELSE SatAdd(EdgeWeight(E, p[i], p[i + 1]), Accumulated(E, p, i + 1))

\* The reconstructed path p leads from s to d over stored edges and weighs dist.
IsPathOfWeight(E, p, s, d, dist) ==
  /\ Len(p) >= 2 /\ p[1] = s /\ p[Len(p)] = d
  /\ \A i \in 1..(Len(p) - 1) : \E e \in E : e[1] = p[i] /\ e[2] = p[i + 1]
  /\ Accumulated(E, p, 1) = dist

PathsMatchDistances(o) ==
  \A s, d \in 1..size[o] :
    (s # d /\ T[o][s][d].dist < INT_MAX) =>
      IsPathOfWeight(Edges(o), printPath(T[o], s, d), s, d, T[o][s][d].dist)

\* C7: after findShortestPath, for every pair s # d of finite dist the path
\* printPath reconstructs starts with s, ends with d, follows stored edges and
\* its accumulated weight is dist[s][d].
C7_PathWeighsDist == JustComputed => PathsMatchDistances(call.o)

\* C7 on the graphs whose path sums stay below the sentinel (it holds there).
C7_BelowSentinel ==
  (JustComputed /\ SumsBelowSentinel(call.o)) => PathsMatchDistances(call.o)

\* ------------------------------------------------------------ C8
\* The walk over the path entries of one row from v back towards s: the vertices
\* met, ending at s, at the 0 sentinel or after fuel steps.
RECURSIVE Chain(_, _, _, _)
Chain(row, s, v, fuel) ==
  IF v = s \/ v = 0 \/ fuel = 0 THEN <<v>>
  ELSE <<v>> \o Chain(row, s, row[v].path, fuel - 1)

WalkIsSound(row, n, s, d) ==
  LET c == Chain(row, s, d, n)
  IN  /\ c[Len(c)] = s
      /\ Len(c) - 1 <= n - 1
      /\ \A i \in 1..Len(c) : c[i] # 0
      /\ \A i, j \in 1..Len(c) : i # j => c[i] # c[j]
      /\ \A i \in 1..(Len(c) - 1) : row[c[i]].dist >= row[c[i + 1]].dist

WalksAreSound(o) ==
  \A s, d \in 1..size[o] :
    T[o][s][d].dist < INT_MAX => WalkIsSound(T[o][s], size[o], s, d)

\* C8: after findShortestPath, for every pair of finite dist the walk over the
\* path entries from d reaches s in at most vertexCount - 1 steps, never meets 0
\* or a vertex twice, and dist[s][.] never increases along it.
C8_PredecessorWalk == JustComputed => WalksAreSound(call.o)

\* C8 on the graphs whose path sums stay below the sentinel (it holds there).
C8_BelowSentinel ==
  (JustComputed /\ SumsBelowSentinel(call.o)) => WalksAreSound(call.o)

\* ------------------------------------------------------------ C9
\* C9: after findShortestPath, dist[v][v] = 0 and path[v][v] = v for every
\* vertex, and no reconstructed path takes a hop from a vertex to itself.
C9_SelfEntries ==
  JustComputed =>
    /\ \A v \in 1..size[call.o] :
         T[call.o][v][v].dist = 0 /\ T[call.o][v][v].path = v
    /\ \A s, d \in 1..size[call.o] :
         LET p == printPath(T[call.o], s, d)
         IN  \A i \in 1..(Len(p) - 1) : p[i] # p[i + 1]

\* A table was computed for a graph with a self-loop on a vertex that also lies
\* on a cycle of two edges.
C9_Witness ==
  /\ JustComputed
  /\ \E v, u \in 1..size[call.o] :
       /\ u # v
       /\ \E e \in Edges(call.o) : e[1] = v /\ e[2] = v
       /\ \E e \in Edges(call.o) : e[1] = v /\ e[2] = u
       /\ \E e \in Edges(call.o) : e[1] = u /\ e[2] = v

\* ------------------------------------------------------------ C10
\* Object g keeps its vertex count, adjacency lists, labels and table in the step.
Untouched(g) ==
  /\ size'[g] = size[g]
  /\ T'[g] = T[g]
  /\ \A v \in TableIdx :
       AdjNext(g, v) = Adj(g, v) /\ vertices'[g][v].data = vertices[g][v].data

\* Object o has, after the step, the vertex count, lists, labels and table that
\* object from had before it.
CopiedFrom(o, from) ==
  /\ size'[o] = size[from]
  /\ T'[o] = T[from]
  /\ \A v \in TableIdx :
       AdjNext(o, v) = Adj(from, v) /\ vertices'[o][v].data = vertices[from][v].data

\* C10: copy construction and assignment from a graph G give a graph with G's
\* vertex count, adjacency lists (destinations, weights, order), labels and table,
\* and leave G as it was; afterwards an insertEdge, removeEdge or findShortestPath
\* on either graph leaves the other graph's lists, labels and table unchanged.
C10_CopyIsEqualAndIndependent ==
  [][ /\ call'.op \in {"Graph(copy)", "operator="} =>
           CopiedFrom(call'.o, call'.src) /\ Untouched(call'.src)
      /\ call'.op \in {"insertEdge", "removeEdge", "findShortestPath"} =>
           \A g \in Objs \ {call'.o} : Untouched(g)
    ]_vars

\* The copy of a graph with a computed table took a further edge behind a copied
\* one, and the original still has the list it had.
C10_Witness ==
  /\ alive[1] /\ alive[2]
  /\ call.op = "insertEdge" /\ call.o = 2 /\ call.ret
  /\ call.pre # <<>>
  /\ Adj(1, call.src) = call.pre
  /\ Adj(2, call.src) # call.pre
  /\ TableComputed(1) /\ T[2] = T[1]

\* ------------------------------------------------------------ C11
\* The lists that insertEdge(1,2,5), insertEdge(2,3,2), insertEdge(1,3,10) leave,
\* and those lists after removeEdge(1,3).
ExampleLists == <<(<< <<2, 5>>, <<3, 10>> >>), (<< <<3, 2>> >>), <<>> >>

ExampleListsLess13 == <<(<< <<2, 5>> >>), (<< <<3, 2>> >>), <<>> >>

HasLists(o, lists) == size[o] = 3 /\ \A v \in 1..3 : Adj(o, v) = lists[v]

\* C11: for the 3-vertex graph built by insertEdge(1,2,5), insertEdge(2,3,2),
\* insertEdge(1,3,10), findShortestPath gives distance(1,3) = 7 with path [1,2,3],
\* distance(1,2) = 5 with path [1,2] and distance(3,1) unreachable; with
\* removeEdge(1,3) applied before computing, distance(1,3) is still 7.
C11_Example ==
  call.op = "findShortestPath" =>
    /\ HasLists(1, ExampleLists) =>
         /\ T[1][1][3].dist = 7 /\ printPath(T[1], 1, 3) = <<1, 2, 3>>
         /\ T[1][1][2].dist = 5 /\ printPath(T[1], 1, 2) = <<1, 2>>
         /\ T[1][3][1].dist = INT_MAX /\ printPath(T[1], 3, 1) = <<>>
    /\ HasLists(1, ExampleListsLess13) =>
         T[1][1][3].dist = 7 /\ printPath(T[1], 1, 3) = <<1, 2, 3>>

\* findShortestPath was called after exactly three edits that left the three
\* edges of the example, (1,2,5) in front of (1,3,10).
C11_Witness ==
  call.op = "findShortestPath" /\ ops = 3 /\ HasLists(1, ExampleLists)

\* ------------------------------------------------------------ C12
\* Object o keeps its vertex count, its adjacency lists and its labels in the step.
StructureKept(o) ==
  /\ size'[o] = size[o]
  /\ \A v \in TableIdx :
       AdjNext(o, v) = Adj(o, v) /\ vertices'[o][v].data = vertices[o][v].data

\* C12: findShortestPath changes no adjacency list, label or vertex count, and the
\* table it leaves is a function of the edges alone: started from any other table
\* (one never computed, or the table it has just left) it leaves the same table.
C12_RecomputeDependsOnEdgesOnly ==
  [][call'.op = "findShortestPath" =>
       /\ StructureKept(call'.o)
       /\ heap' = heap
       /\ \A J \in JunkTables \cup {T'[call'.o]} :
            findShortestPath(heap, vertices[call'.o], size[call'.o], J) = T'[call'.o]
    ]_vars

\* findShortestPath was called on a graph with an edge after an edit, and every
\* entry outside the graph's vertices is reset too.
C12_Witness ==
  /\ call.op = "findShortestPath" /\ ops = MaxOps
  /\ \E v \in 1..size[1] : Adj(1, v) # <<>>
  /\ TableComputed(1)
  /\ T[1][0][0] = Table(FALSE, INT_MAX, 0)

\* ------------------------------------------------------------ C13
\* Object o has no edge and no label on the vertices 1..n after the step.
Discarded(o, n) ==
  \A v \in 1..n : AdjNext(o, v) = <<>> /\ vertices'[o][v].data = NoData

\* Object o had no edge and no label on any vertex before the step.
AlreadyCleared(o) ==
  \A v \in TableIdx : Adj(o, v) = <<>> /\ vertices[o][v].data = NoData

\* C13: clearGraph discards every edge and every label of the vertices
\* 1..vertexCount and resets the vertex count to 0; on an already cleared graph
\* it changes nothing.
C13_ClearResetsCount ==
  [][call'.op = "clearGraph" =>
       /\ Discarded(call'.o, size[call'.o])
       /\ size'[call'.o] = 0
       /\ AlreadyCleared(call'.o) => GraphState' = GraphState
    ]_vars

\* C13 without the reset of the vertex count (this holds).
C13_ClearKeepsCount ==
  [][call'.op = "clearGraph" =>
       /\ Discarded(call'.o, size[call'.o])
       /\ size'[call'.o] = size[call'.o]
       /\ AlreadyCleared(call'.o) => GraphState' = GraphState
    ]_vars

\* ------------------------------------------------------------ C14
\* The unvisited vertices of finite dist in the row of the running source.
Candidates(o) ==
  {v \in 1..size[o] :
     ~T[o][call.src][v].visited /\ T[o][call.src][v].dist < INT_MAX}

\* The step marks the candidate of least dist, the lowest one among equals.
MarksLeast(o) ==
  LET v == call'.pre[Len(call'.pre)]
      row == T[o][call.src]
  IN  /\ v \in Candidates(o)
      /\ \A u \in Candidates(o) :
           row[v].dist < row[u].dist \/ (row[v].dist = row[u].dist /\ v <= u)
      /\ T'[o][call.src][v].visited
      /\ Len(call'.pre) <= size[o] - 1

\* The vertices were marked in non-decreasing order of the dist the run left.
MarkedInOrder(o) ==
  \A j, k \in 1..Len(call.pre) :
    j < k => T[o][call.src][call.pre[j]].dist <= T[o][call.src][call.pre[k]].dist

InHelper == call.op = "findShortestPathHelper:306"

\* The big-step table equals the table the steps leave.
StepsAgree ==
  call.op = "findShortestPath" =>
    T[call.o] = findShortestPath(heap, vertices[call.o], size[call.o], T[call.o])

\* C14: in the run for one source each step marks the unvisited vertex of
\* 1..vertexCount with the smallest finite dist, the lowest identifier among
\* equals, so vertices are marked in non-decreasing order of their final dist;
\* with no unvisited vertex of finite dist the run stops and changes nothing
\* more; a run makes at most vertexCount - 1 steps.
C14_MarksInDistOrder ==
  [][InHelper =>
       /\ call'.op = "findShortestPathHelper:306" => MarksLeast(call.o)
       /\ Candidates(call.o) = {} =>
            call'.op = "findShortestPath:284" /\ T' = T
       /\ call'.op = "findShortestPath:284" =>
            T' = T /\ MarkedInOrder(call.o) /\ Len(call.pre) <= size[call.o] - 1
    ]_vars

\* C14 for the runs in which no dist went below 0 (this holds).
C14_WithoutWrap ==
  [][(InHelper /\ \A v \in 1..size[call.o] : T[call.o][call.src][v].dist >= 0) =>
       /\ call'.op = "findShortestPathHelper:306" => MarksLeast(call.o)
       /\ Candidates(call.o) = {} =>
            call'.op = "findShortestPath:284" /\ T' = T
       /\ call'.op = "findShortestPath:284" =>
            T' = T /\ MarkedInOrder(call.o) /\ Len(call.pre) <= size[call.o] - 1
    ]_vars

\* ------------------------------------------------------------ C15
\* The list is the old list with the weight of its first entry for d set to w.
Reweighted(old, new, d, w) == new = [old EXCEPT ![FirstFor(old, d)] = <<d, w>>]

\* C15: insertEdge(src, dst, w) with w >= 0 and no edge src->dst appends (dst, w)
\* behind the unchanged list of src; when the edge exists the list keeps length
\* and order and only the weight of that entry changes.
C15_AppendsOrUpdatesInPlace ==
  [][(call'.op = "insertEdge" /\ call'.weight >= 0) =>
       LET old == Adj(call'.o, call'.src)
           new == AdjNext(call'.o, call'.src)
       IN  IF HasEdge(old, call'.dst)
           THEN Reweighted(old, new, call'.dst, call'.weight)
           ELSE new = Append(old, <<call'.dst, call'.weight>>)
    ]_vars

\* C15 with the update in place only for an edge that is not the last of its
\* list (this holds): an edge that is the last of its list gets a second entry.
C15_ExceptLastEntry ==
  [][(call'.op = "insertEdge" /\ call'.weight >= 0) =>
       LET old == Adj(call'.o, call'.src)
           new == AdjNext(call'.o, call'.src)
       IN  IF HasEdge(old, call'.dst) /\ FirstFor(old, call'.dst) < Len(old)
           THEN Reweighted(old, new, call'.dst, call'.weight)
           ELSE new = Append(old, <<call'.dst, call'.weight>>)
    ]_vars

\* ------------------------------------------------------------ C16
\* The triples of the input in front of its terminator: a triple of source 0,
\* or the end of the input.
RECURSIVE BeforeTerminator(_)
BeforeTerminator(ts) ==
  IF ts = <<>> \/ ts[1][1] = 0 THEN <<>> ELSE <<ts[1]>> \o BeforeTerminator(Tail(ts))

\* insertEdge called for each triple of ts in order.
RECURSIVE Forwarded(_, _, _)
Forwarded(h, verts, ts) ==
  IF ts = <<>> THEN [heap |-> h, vertices |-> verts]
  ELSE LET r == insertEdge(h, verts, ts[1][1], ts[1][2], ts[1][3])
       IN  Forwarded(r.heap, r.vertices, Tail(ts))

\* The lists of object o are those that forwarding the triples ts leaves.
BuiltFrom(o, ts) ==
  LET r == Forwarded([a \in Addr |-> FreeCell], NullVertices, ts)
  IN  \A v \in 1..size[o] : Adj(o, v) = ListOf(r.heap, r.vertices[v].edgeHead)

FileRead == call.op = "buildGraph" /\ call.pre # <<>>

\* C16: buildGraph forwards every triple in front of the terminator (a triple of
\* source 0, or the end of the input) to insertEdge, in input order, also the
\* last triple of an input that ends right behind it.
C16_ForwardsEveryTriple ==
  FileRead => BuiltFrom(call.o, BeforeTerminator(call.pre[1].triples))

\* C16 with the last triple left out when the input ends right behind its last
\* digit (this holds).
C16_DropsLastAtEnd ==
  FileRead =>
    LET f == call.pre[1]
        ts == IF f.atEof /\ f.triples # <<>>
              THEN SubSeq(f.triples, 1, Len(f.triples) - 1)
              ELSE f.triples
    IN  BuiltFrom(call.o, BeforeTerminator(ts))

\* ------------------------------------------------------------ C17
\* C17: after any insertEdge calls, a removeEdge(src, dst) that returns success
\* leaves no edge src->dst in the list of src.
C17_RemovedEdgeIsGone ==
  [][(call'.op = "removeEdge" /\ call'.ret) =>
       ~HasEdge(AdjNext(call'.o, call'.src), call'.dst)
    ]_vars

\* C17 for a list that held one entry for dst (this holds).
C17_SingleEntryIsGone ==
  [][(call'.op = "removeEdge" /\ call'.ret
        /\ Cardinality(EntriesFor(Adj(call'.o, call'.src), call'.dst)) = 1) =>
       ~HasEdge(AdjNext(call'.o, call'.src), call'.dst)
    ]_vars

\* ------------------------------------------------------------ C18
\* The table of the edges object o has now, computed from a table never used.
FreshTable(o) ==
  findShortestPath(heap, vertices[o], size[o],
                   [row \in TableIdx |-> [column \in TableIdx |-> Table(TRUE, 1, 1)]])

\* C18: display(source, destination) and displayAll() rerun findShortestPath
\* before they read the table, so after any interleaving of insertEdge, removeEdge
\* and queries every reported distance and path is the one of the edges the
\* graph has at the query, never one of an earlier edge set.
C18_QueriesRecompute ==
  [][/\ call'.op = "display" =>
          /\ call'.out = display(FreshTable(call'.o), vertices[call'.o],
                                 call'.src, call'.dst)
          /\ call'.out.dist =
               DistText([dist |-> LeastWeight(Edges(call'.o), size[call'.o], call'.src,
                                              size[call'.o] - 1)[call'.dst]])
     /\ call'.op = "displayAll" =>
          call'.out = displayAll(FreshTable(call'.o), vertices[call'.o], size[call'.o])
    ]_vars

\* A display made after an edit reports a path of two or more vertices over an
\* edge of weight 2, which only an insertEdge call can have stored.
C18_Witness ==
  /\ call.op = "display" /\ ops = MaxOps
  /\ ~call.out.dist.dashes
  /\ \E i \in 1..(Len(call.out.path) - 1) :
       \E j \in 1..Len(Adj(1, call.out.path[i])) :
         Adj(1, call.out.path[i])[j] = <<call.out.path[i + 1], 2>>

\* ------------------------------------------------------------ C19
\* C19: for every graph with weights in 0..INT_MAX the sum dist + weight of the
\* relaxation never wraps, so after findShortestPath every dist entry is in
\* 0..INT_MAX and no vertex is given a dist below its least path weight.
C19_NoDistBelowPathWeight ==
  JustComputed =>
    \A s, d \in 1..size[call.o] :
      /\ T[call.o][s][d].dist \in 0..INT_MAX
      /\ T[call.o][s][d].dist >=
           LeastWeight(Edges(call.o), size[call.o], s, size[call.o] - 1)[d]

\* C19 on the graphs whose path sums stay below the sentinel (this holds).
C19_BelowSentinel ==
  (JustComputed /\ SumsBelowSentinel(call.o)) =>
    \A s, d \in 1..size[call.o] :
      /\ T[call.o][s][d].dist \in 0..INT_MAX
      /\ T[call.o][s][d].dist >=
           LeastWeight(Edges(call.o), size[call.o], s, size[call.o] - 1)[d]

====
